---------------------------- MODULE Spec2Model ----------------------------
(***************************************************************************)
(* A model of the path tracer in src/src/main.rs: the vector algebra, the  *)
(* sphere intersection, the scene aggregate (HittableStore), the material  *)
(* scattering, the integrator (Ray::ray_color), the camera ray generator   *)
(* and the parallel render driver of main.                                 *)
(*                                                                         *)
(* Numbers.  The program computes in f64.  The model computes in exact     *)
(* rational arithmetic: a number is a pair <<n, d>> in lowest terms with   *)
(* d > 0, and +infinity is <<1, 0>>.  The one operation that leaves the    *)
(* rationals, sqrt, is exact on rational squares and otherwise rounds down *)
(* onto the grid 1/SqrtGrid, as the f64 sqrt rounds onto the f64 grid.     *)
(* NaN does not exist in the model: the inputs never divide by zero (no    *)
(* ray has a zero direction, no sphere a zero radius).                     *)
(***************************************************************************)
EXTENDS Integers, Sequences, FiniteSets

VARIABLES
    objects,    \* HittableStore.objects: the Vec of primitives, in push order
    call,       \* the arguments of the last hit call: [kind, r, t_min, t_max, idx]
    sphereRes,  \* what Sphere::hit returned for the last call on one sphere
    storeRes,   \* what HittableStore::hit returned for the last call
    world,      \* ray_color: the scene the walk runs in
    pc,         \* ray_color: "call" (an invocation begins), "ret" (it returned),
                \* "done" (the outermost invocation returned), "idle"
    ray,        \* ray_color: self of the current invocation
    depth,      \* ray_color: depth of the current invocation
    depth0,     \* ray_color: depth of the outermost invocation
    frames,     \* ray_color: the attenuations of the invocations waiting for
                \* their recursive call, outermost first
    ret,        \* ray_color: the value the last invocation returned
    queries,    \* ray_color: the number of world.hit calls made so far
    ending,     \* ray_color: which branch the innermost invocation took
    last,       \* ray_color: the last Material::scatter call and what it returned
    rpc,        \* main: "header", "render", "output", "done" ("idle" elsewhere)
    header,     \* main: the PPM header printed
    rowState,   \* main: for each row j, "todo", "run" (a worker is in the closure
                \* of line 597 for j) or "done"
    rowPixels,  \* main: for each row j, the Vec<Vector3> its closure returned
    rowSamples, \* main: for each row j and column, the get_ray calls of the
                \* pixel: [u, v, origin] for each sample
    finished,   \* main: the rows in the order their closures returned
    image,      \* main: the collected Vec<Vector3>
    stdout      \* main: the pixel lines written to stdout

varsHit == <<objects, call, sphereRes, storeRes>>
varsTrace == <<world, pc, ray, depth, depth0, frames, ret, queries, ending, last>>
varsRender == <<rpc, header, rowState, rowPixels, rowSamples, finished, image, stdout>>
vars == <<varsHit, varsTrace, varsRender>>

-----------------------------------------------------------------------------
(* Bounds of the model *)

MaxObjects == 2
MaxDepth == 3
SqrtGrid == 8
\* largest denominator of a ray's coordinates on a followed walk
MaxDen == 25
\* the image and the sampling of the render driver (width, height,
\* samples_per_pixel and max_depth of main, scaled down)
Width == 2
Height == 3
SamplesPerPixel == 2
RenderDepth == 1
\* the threads of the rayon pool
Workers == 2

-----------------------------------------------------------------------------
(* f64 arithmetic, modelled by exact rationals *)

Abs(n) == IF n < 0 THEN -n ELSE n

RECURSIVE GCD(_, _)
GCD(a, b) == IF b = 0 THEN a ELSE GCD(b, a % b)

\* n/d divided through by g, the sign carried by the numerator
Reduce(n, d, g) ==
    IF d < 0 THEN <<-(n \div g), -(d \div g)>> ELSE <<n \div g, d \div g>>

\* the rational n/d in lowest terms, d # 0
Rat(n, d) == Reduce(n, d, GCD(Abs(n), Abs(d)))

R(n) == <<n, 1>>
R0 == <<0, 1>>
R1 == <<1, 1>>
Infinity == <<1, 0>>

\* a and b over the common denominator a[2] * b[2] / g: the two numerators
\* and the denominator (g is 0 only when both are +infinity)
CommonBy(a, b, g) ==
    IF g = 0 THEN <<a[1] * b[2], b[1] * a[2], a[2] * b[2]>>
    ELSE <<a[1] * (b[2] \div g), b[1] * (a[2] \div g), a[2] * (b[2] \div g)>>

\* a and b brought to their least common denominator
Common(a, b) == CommonBy(a, b, GCD(a[2], b[2]))

AddCommon(c) == Rat(c[1] + c[2], c[3])
SubCommon(c) == Rat(c[1] - c[2], c[3])

RAdd(a, b) == AddCommon(Common(a, b))
RSub(a, b) == SubCommon(Common(a, b))

\* a * b with the common factors g1 of a[1], b[2] and g2 of b[1], a[2] taken
\* out before multiplying
MulBy(a, b, g1, g2) ==
    IF g1 = 0 \/ g2 = 0 THEN R0
    ELSE <<(a[1] \div g1) * (b[1] \div g2), (a[2] \div g2) * (b[2] \div g1)>>

RMul(a, b) == MulBy(a, b, GCD(Abs(a[1]), b[2]), GCD(Abs(b[1]), a[2]))
RNeg(a) == <<-a[1], a[2]>>
\* 1 / a, a # 0
RInv(a) == IF a[1] < 0 THEN <<-a[2], -a[1]>> ELSE <<a[2], a[1]>>
RDiv(a, b) == RMul(a, RInv(b))

LtCommon(c) == c[1] < c[2]
LeCommon(c) == c[1] <= c[2]
RLt(a, b) == LtCommon(Common(a, b))
RLe(a, b) == LeCommon(Common(a, b))
RMin(a, b) == IF RLt(b, a) THEN b ELSE a
RAbs(a) == <<Abs(a[1]), a[2]>>

\* f64::powi
RECURSIVE RPowi(_, _)
RPowi(a, k) == IF k = 0 THEN R1 ELSE RMul(a, RPowi(a, k - 1))

\* the integer square root of n, from s = 2 * isqrt(n / 4)
SqrtStep(n, s) == IF (s + 1) * (s + 1) <= n THEN s + 1 ELSE s

RECURSIVE ISqrt(_)
ISqrt(n) == IF n < 2 THEN n ELSE SqrtStep(n, 2 * ISqrt(n \div 4))

SquareOf(n, s) == s * s = n
IsSquare(n) == n >= 0 /\ SquareOf(n, ISqrt(n))

\* a rational whose square root is rational
SqrtExact(a) == IsSquare(a[1]) /\ IsSquare(a[2])

\* f64::sqrt of a >= 0
RSqrt(a) ==
    IF SqrtExact(a) THEN <<ISqrt(a[1]), ISqrt(a[2])>>
    ELSE Rat(ISqrt((a[1] * SqrtGrid * SqrtGrid) \div a[2]), SqrtGrid)

-----------------------------------------------------------------------------
(* Vector3 *)

V(x, y, z) == <<R(x), R(y), R(z)>>
\* the vector (x, y, z) / d
VQ(x, y, z, d) == <<Rat(x, d), Rat(y, d), Rat(z, d)>>
Zero == V(0, 0, 0)

VAdd(a, b) == <<RAdd(a[1], b[1]), RAdd(a[2], b[2]), RAdd(a[3], b[3])>>
VSub(a, b) == <<RSub(a[1], b[1]), RSub(a[2], b[2]), RSub(a[3], b[3])>>
VMul(a, b) == <<RMul(a[1], b[1]), RMul(a[2], b[2]), RMul(a[3], b[3])>>
VScale(a, s) == <<RMul(a[1], s), RMul(a[2], s), RMul(a[3], s)>>
VDiv(a, s) == <<RDiv(a[1], s), RDiv(a[2], s), RDiv(a[3], s)>>

Dot(a, b) == RAdd(RAdd(RMul(a[1], b[1]), RMul(a[2], b[2])), RMul(a[3], b[3]))
LengthSquared(a) == Dot(a, a)
Length(a) == RSqrt(LengthSquared(a))
Normalize(a) == VDiv(a, Length(a))

\* 1 / s for the s = 1e-8 of near_zero
NearZeroInv == 100000000

\* |x| < 1e-8: |n| / d < 1 / NearZeroInv, without forming n * NearZeroInv
Tiny(x) == Abs(x[1]) <= (x[2] - 1) \div NearZeroInv

\* Vector3::near_zero
NearZero(a) == Tiny(a[1]) /\ Tiny(a[2]) /\ Tiny(a[3])

Reflect(v, n) == VSub(v, VScale(VScale(n, Dot(v, n)), R(2)))

\* lines 54-55 with r_out_parallel along n instead of against it
RefractFromOutward(n, r_out_perp) ==
    VAdd(r_out_perp,
         VScale(VScale(n, RSqrt(RAbs(RSub(R1, LengthSquared(r_out_perp))))), R1))

\* lines 54-55: r_out_perp + r_out_parallel
RefractFrom(n, r_out_perp) ==
    VAdd(r_out_perp,
         VScale(VScale(n, RSqrt(RAbs(RSub(R1, LengthSquared(r_out_perp))))), R(-1)))

Refract(v, n, etai_over_etat) ==
    RefractFrom(n, VScale(VAdd(v, VScale(n, RMin(Dot(VScale(v, R(-1)), n), R1))),
                          etai_over_etat))

-----------------------------------------------------------------------------
(* Ray, Material, Intersection *)

Ray(o, d) == [origin |-> o, direction |-> d]
RayAt(r, t) == VAdd(r.origin, VScale(r.direction, t))

Lambertian(albedo) == [kind |-> "Lambertian", albedo |-> albedo, fuzz |-> R0, ir |-> R0]
Metal(albedo, fuzz) == [kind |-> "Metal", albedo |-> albedo, fuzz |-> fuzz, ir |-> R0]
Dielectric(ir) == [kind |-> "Dielectric", albedo |-> Zero, fuzz |-> R0, ir |-> ir]

\* Option<Intersection>: None, or Some(i) as the record i with some = TRUE
None ==
    [some |-> FALSE, p |-> Zero, normal |-> Zero, material |-> Lambertian(Zero),
     t |-> R0, front_facing |-> FALSE]

\* lines 207-212 with the two branches exchanged
FaceNormalFlipped(i, outward_normal, ff) ==
    [i EXCEPT !.front_facing = ff,
              !.normal = IF ff THEN VScale(outward_normal, R(-1)) ELSE outward_normal]

\* lines 207-212: front_facing and the normal it selects
FaceNormal(i, outward_normal, ff) ==
    [i EXCEPT !.front_facing = ff,
              !.normal = IF ff THEN outward_normal ELSE VScale(outward_normal, R(-1))]

\* Intersection::set_face_normal
SetFaceNormal(i, r, outward_normal) ==
    FaceNormal(i, outward_normal, RLt(Dot(r.direction, outward_normal), R0))

-----------------------------------------------------------------------------
(* Sphere *)

Sphere(center, radius, material) ==
    [center |-> center, radius |-> radius, material |-> material]

\* the test of lines 240 and 242 with t_max itself rejected
RejectedAtTMax(root, t_min, t_max) == RLt(root, t_min) \/ RLe(t_max, root)

\* the test of lines 240 and 242
Rejected(root, t_min, t_max) == RLt(root, t_min) \/ RLt(t_max, root)

\* line 231
HalfB(s, r) == Dot(VSub(r.origin, s.center), r.direction)

\* line 232
SphereC(s, r) ==
    RSub(LengthSquared(VSub(r.origin, s.center)), RMul(s.radius, s.radius))

\* line 234
DiscriminantOf(a, hb, c) == RSub(RMul(hb, hb), RMul(a, c))

\* lines 229-234
Discriminant(s, r) ==
    DiscriminantOf(LengthSquared(r.direction), HalfB(s, r), SphereC(s, r))

\* lines 238-239 and 241: (-hb + sign * sd) / a
Root(s, r, sign) ==
    RDiv(RAdd(RNeg(HalfB(s, r)), RMul(R(sign), RSqrt(Discriminant(s, r)))),
         LengthSquared(r.direction))

\* lines 246-255: the intersection record at the point p of parameter root
SphereIntersection(s, r, root, p, outward_normal) ==
    SetFaceNormal([some |-> TRUE, p |-> p, normal |-> outward_normal,
                   material |-> s.material, t |-> root, front_facing |-> FALSE],
                  r, outward_normal)

SphereHitAt(s, r, root, p) ==
    SphereIntersection(s, r, root, p, VDiv(VSub(p, s.center), s.radius))

\* lines 239-245: the choice between the two roots
SphereHitRoots(s, r, t_min, t_max, root1, root2) ==
    IF Rejected(root1, t_min, t_max)
    THEN IF Rejected(root2, t_min, t_max) THEN None
         ELSE SphereHitAt(s, r, root2, RayAt(r, root2))
    ELSE SphereHitAt(s, r, root1, RayAt(r, root1))

\* Sphere::hit
SphereHit(s, r, t_min, t_max) ==
    IF RLt(Discriminant(s, r), R0) THEN None
    ELSE SphereHitRoots(s, r, t_min, t_max, Root(s, r, -1), Root(s, r, 1))

-----------------------------------------------------------------------------
(* HittableStore *)

RECURSIVE FoldHitNoShrink(_, _, _, _, _, _)
RECURSIVE FoldNextNoShrink(_, _, _, _, _, _, _)

\* the fold of lines 347-356 with every primitive tested against t_max itself
FoldHitNoShrink(objs, k, r, t_min, i, t_max) ==
    IF k > Len(objs) THEN i
    ELSE FoldNextNoShrink(objs, k, r, t_min, i, t_max, SphereHit(objs[k], r, t_min, t_max))

FoldNextNoShrink(objs, k, r, t_min, i, t_max, ni) ==
    FoldHitNoShrink(objs, k + 1, r, t_min, IF ni.some THEN ni ELSE i, t_max)

HittableStoreHitNoShrink(objs, r, t_min, t_max) ==
    FoldHitNoShrink(objs, 1, r, t_min, None, t_max)

RECURSIVE FoldHitFirst(_, _, _, _, _)
RECURSIVE FoldNextFirst(_, _, _, _, _, _)

\* the fold of lines 347-356 stopping at the first primitive that reports a hit
FoldHitFirst(objs, k, r, t_min, t_max) ==
    IF k > Len(objs) THEN None
    ELSE FoldNextFirst(objs, k, r, t_min, t_max, SphereHit(objs[k], r, t_min, t_max))

FoldNextFirst(objs, k, r, t_min, t_max, ni) ==
    IF ni.some THEN ni ELSE FoldHitFirst(objs, k + 1, r, t_min, t_max)

HittableStoreHitFirst(objs, r, t_min, t_max) == FoldHitFirst(objs, 1, r, t_min, t_max)

RECURSIVE FoldHit(_, _, _, _, _, _)
RECURSIVE FoldNext(_, _, _, _, _, _, _)

\* the fold of lines 347-356 over objs[k..], from the accumulator (i, closest)
FoldHit(objs, k, r, t_min, i, closest) ==
    IF k > Len(objs) THEN i
    ELSE FoldNext(objs, k, r, t_min, i, closest, SphereHit(objs[k], r, t_min, closest))

\* lines 350-355: what the fold does with the report ni of objs[k]
FoldNext(objs, k, r, t_min, i, closest, ni) ==
    IF ni.some THEN FoldHit(objs, k + 1, r, t_min, ni, ni.t)
    ELSE FoldHit(objs, k + 1, r, t_min, i, closest)

\* HittableStore::hit
HittableStoreHit(objs, r, t_min, t_max) == FoldHit(objs, 1, r, t_min, None, t_max)

-----------------------------------------------------------------------------
(* Material *)

\* Option<(Vector3, Ray)>
NoScatter == [some |-> FALSE, attenuation |-> Zero, scattered |-> Ray(Zero, Zero)]
SomeScatter(att, out) == [some |-> TRUE, attenuation |-> att, scattered |-> out]

\* line 516, r0 being the squared r0 of line 515
ReflectanceFrom(cosine, r0) ==
    RAdd(r0, RMul(RSub(R1, r0), RPowi(RSub(R1, cosine), 5)))

Square(x) == RMul(x, x)

\* fn reflectance
Reflectance(cosine, ref_idx) ==
    ReflectanceFrom(cosine, Square(RDiv(RSub(R1, ref_idx), RAdd(R1, ref_idx))))

\* lines 463-466
LambertianDirection(normal, sum) == IF NearZero(sum) THEN normal ELSE sum

\* the test of line 478 with a grazing direction let through
MetalScattersGrazing(direction, normal) == RLe(R0, Dot(direction, normal))

\* the test of line 478
MetalScatters(direction, normal) == RLt(R0, Dot(direction, normal))

\* lines 478-482
MetalOut(m, i, scattered) ==
    IF MetalScatters(scattered.direction, i.normal)
    THEN SomeScatter(m.albedo, scattered)
    ELSE NoScatter

\* the choice of lines 496-498: reflect rather than refract; u is random()
\* (c is cos_theta, s is sin_theta)
DielectricReflects(c, s, ratio, u) ==
    \/ RLt(R1, RMul(ratio, s))
    \/ RLt(u, Reflectance(c, ratio))

\* lines 494-504, from cos_theta on
DielectricOut(i, unit_direction, ratio, u, cos_theta) ==
    SomeScatter(V(1, 1, 1),
        Ray(i.p,
            IF DielectricReflects(cos_theta, RSqrt(RSub(R1, RMul(cos_theta, cos_theta))),
                                  ratio, u)
            THEN Reflect(unit_direction, i.normal)
            ELSE Refract(unit_direction, i.normal, ratio)))

\* lines 485-493
DielectricScatter(i, unit_direction, ratio, u) ==
    DielectricOut(i, unit_direction, ratio, u,
                  RMin(Dot(VScale(unit_direction, R(-1)), i.normal), R1))

\* Material::scatter; rnd holds the random draws of the call: rnd.ball is what
\* random_in_unit_sphere returns, rnd.u what random() returns
Scatter(m, r_in, i, rnd) ==
    CASE m.kind = "Lambertian" ->
            SomeScatter(m.albedo,
                Ray(i.p, LambertianDirection(i.normal, VAdd(i.normal, Normalize(rnd.ball)))))
      [] m.kind = "Metal" ->
            MetalOut(m, i,
                Ray(i.p, VAdd(Reflect(Normalize(r_in.direction), i.normal),
                              VScale(rnd.ball, m.fuzz))))
      [] m.kind = "Dielectric" ->
            DielectricScatter(i, Normalize(r_in.direction),
                              IF i.front_facing THEN RDiv(R1, m.ir) ELSE m.ir, rnd.u)

-----------------------------------------------------------------------------
(* Ray::ray_color *)

Black == V(0, 0, 0)

\* line 190: the blend of white and blue at t
Blend(t) == VAdd(VScale(V(1, 1, 1), RSub(R1, t)), VScale(VQ(5, 7, 10, 10), t))

\* lines 188-190
Background(r) == Blend(RMul(RAdd(Normalize(r.direction)[2], R1), Rat(1, 2)))

\* line 178 with depth 0 let through
DepthExhaustedBelowZero(d) == d < 0

\* line 178
DepthExhausted(d) == d <= 0

\* line 183: the depth handed to the recursive call, kept as it is
NextDepthSame(d) == d

\* line 183: the depth handed to the recursive call
NextDepth(d) == d - 1

\* line 181
WorldHit(w, r) == HittableStoreHit(w, r, Rat(1, 1000), Infinity)

-----------------------------------------------------------------------------
(* The scene aggregate as a state machine: add and hit *)

Grey == VQ(1, 1, 1, 2)

\* the primitives a scene is built from
SphereSet ==
    { Sphere(V(0, 0, -2), R(1), Lambertian(Grey)),
      Sphere(V(0, 0, -4), R(3), Metal(VQ(7, 6, 5, 10), R0)),
      Sphere(V(0, 0, -2), R(-1), Dielectric(Rat(3, 2))),
      Sphere(V(3, 0, -5), R(5), Metal(Grey, Rat(1, 2))),
      Sphere(V(1, 0, -6), R(2), Lambertian(VQ(1, 2, 5, 10))) }

RaySet ==
    { Ray(V(0, 0, 0), V(0, 0, -1)),
      Ray(V(0, 0, 0), V(0, 0, -2)),
      Ray(V(0, 0, -2), V(0, 0, -1)),
      Ray(V(-2, 0, 0), V(0, 0, -1)) }

TMinSet == { Rat(1, 1000), R(1) }
TMaxSet == { Infinity, R(1), R(5) }

NoCall == [kind |-> "none", idx |-> 0, r |-> Ray(Zero, Zero), t_min |-> R0, t_max |-> R0]

NoRnd == [ball |-> Zero, u |-> R0]
NoLast ==
    [called |-> FALSE, m |-> Lambertian(Zero), r_in |-> Ray(Zero, Zero), i |-> None,
     rnd |-> NoRnd, out |-> NoScatter]

HitIdle ==
    /\ objects = <<>>
    /\ call = NoCall
    /\ sphereRes = None
    /\ storeRes = None

TraceIdle ==
    /\ world = <<>>
    /\ pc = "idle"
    /\ ray = Ray(Zero, Zero)
    /\ depth = 0
    /\ depth0 = 0
    /\ frames = <<>>
    /\ ret = Black
    /\ queries = 0
    /\ ending = "none"
    /\ last = NoLast

RenderIdle ==
    /\ rpc = "idle"
    /\ header = <<>>
    /\ rowState = [j \in 0..(Height - 1) |-> "todo"]
    /\ rowPixels = [j \in 0..(Height - 1) |-> <<>>]
    /\ rowSamples = [j \in 0..(Height - 1) |-> <<>>]
    /\ finished = <<>>
    /\ image = <<>>
    /\ stdout = <<>>

InitHit == HitIdle /\ TraceIdle /\ RenderIdle

\* HittableStore::add
Add(s) ==
    /\ UNCHANGED <<varsTrace, varsRender>>
    /\ call = NoCall
    /\ Len(objects) < MaxObjects
    /\ objects' = Append(objects, s)
    /\ UNCHANGED <<call, sphereRes, storeRes>>

\* a call of Sphere::hit on the k-th primitive
CallSphereHit(k, r, t_min, t_max) ==
    /\ UNCHANGED <<varsTrace, varsRender>>
    /\ call = NoCall
    /\ call' = [kind |-> "sphere", idx |-> k, r |-> r, t_min |-> t_min, t_max |-> t_max]
    /\ sphereRes' = SphereHit(objects[k], r, t_min, t_max)
    /\ UNCHANGED <<objects, storeRes>>

\* a call of HittableStore::hit
CallStoreHit(r, t_min, t_max) ==
    /\ UNCHANGED <<varsTrace, varsRender>>
    /\ call = NoCall
    /\ call' = [kind |-> "store", idx |-> 0, r |-> r, t_min |-> t_min, t_max |-> t_max]
    /\ storeRes' = HittableStoreHit(objects, r, t_min, t_max)
    /\ UNCHANGED <<objects, sphereRes>>

\* the caller drops the returned Option<Intersection>
Return ==
    /\ UNCHANGED <<varsTrace, varsRender>>
    /\ call # NoCall
    /\ call' = NoCall
    /\ sphereRes' = None
    /\ storeRes' = None
    /\ UNCHANGED objects

NextHit ==
    \/ \E s \in SphereSet : Add(s)
    \/ \E k \in 1..Len(objects), r \in RaySet, t_min \in TMinSet, t_max \in TMaxSet :
          CallSphereHit(k, r, t_min, t_max)
    \/ \E r \in RaySet, t_min \in TMinSet, t_max \in TMaxSet :
          CallStoreHit(r, t_min, t_max)
    \/ Return

SpecHit == InitHit /\ [][NextHit]_vars

-----------------------------------------------------------------------------
(* Ray::ray_color as a state machine: one action for each branch that an      *)
(* invocation takes, and the returns of the recursion                        *)

Mirror == Metal(VQ(8, 6, 2, 10), R0)

WorldSet ==
    { <<>>,
      << Sphere(V(0, 0, -3), R(1), Mirror),
         Sphere(V(0, 0, 3), R(1), Lambertian(Grey)) >>,
      << Sphere(V(0, 0, -5), R(5), Dielectric(R1)) >>,
      << Sphere(V(0, 0, -5), R(5), Dielectric(Rat(3, 2))),
         Sphere(V(0, 0, -5), R(-4), Dielectric(Rat(3, 2))) >>,
      << Sphere(V(3, 0, -5), R(5), Mirror),
         Sphere(V(0, 0, -9), R(2), Metal(Grey, Rat(1, 2))) >> }

TraceRays ==
    { Ray(V(0, 0, 0), V(0, 0, -1)),
      Ray(V(3, 0, 0), V(0, 0, -1)),
      Ray(V(-2, 0, 0), V(0, 0, -2)),
      Ray(V(0, 0, 0), V(0, 3, -4)) }

\* random_in_range(-1.0, 1.0) three times: points of the cube [-1, 1)^3
CubeDraws ==
    { VQ(0, 0, 1, 2), VQ(0, 0, -1, 2), VQ(1, 0, 0, 2), VQ(-3, 0, -4, 10),
      VQ(9, 9, 9, 10) }

\* Vector3::random_in_unit_sphere: the loop of lines 21-26 returns the first
\* draw of squared length below 1
RandomInUnitSphere == { p \in CubeDraws : RLt(LengthSquared(p), R1) }

\* random(): values of [0, 1)
RandomSet == { R0, Rat(1, 2), Rat(99, 100) }

RndSet == { [ball |-> b, u |-> u] : b \in RandomInUnitSphere, u \in RandomSet }

\* The walk is followed where the model's arithmetic is exact: every sphere's
\* discriminant is negative or a rational square, and the direction has a
\* rational length where the material hit normalizes it.
ExactRoot(dsc) == RLt(dsc, R0) \/ SqrtExact(dsc)

NeedsUnit(nearest) == nearest.some /\ nearest.material.kind # "Lambertian"

StepExact(w, r) ==
    /\ \A c \in 1..3 : r.origin[c][2] <= MaxDen /\ r.direction[c][2] <= MaxDen
    /\ \A k \in 1..Len(w) : ExactRoot(Discriminant(w[k], r))
    /\ NeedsUnit(WorldHit(w, r)) => SqrtExact(LengthSquared(r.direction))

Followable(wd, nxt, nd) == DepthExhausted(nd) \/ StepExact(wd, nxt)

InitTrace ==
    /\ HitIdle
    /\ RenderIdle
    /\ world \in WorldSet
    /\ ray \in TraceRays
    /\ StepExact(world, ray)
    /\ depth \in 0..MaxDepth
    /\ depth0 = depth
    /\ pc = "call"
    /\ frames = <<>>
    /\ ret = Black
    /\ queries = 0
    /\ ending = "none"
    /\ last = NoLast

\* line 178-179: the depth is used up
Exhausted ==
    /\ pc = "call"
    /\ DepthExhausted(depth)
    /\ pc' = "ret"
    /\ ret' = Black
    /\ ending' = "depth"
    /\ UNCHANGED <<world, ray, depth, depth0, frames, queries, last, varsHit, varsRender>>

\* lines 181, 187-190: the ray hits nothing
Miss ==
    /\ pc = "call"
    /\ ~DepthExhausted(depth)
    /\ ~WorldHit(world, ray).some
    /\ queries' = queries + 1
    /\ pc' = "ret"
    /\ ret' = Background(ray)
    /\ ending' = "miss"
    /\ UNCHANGED <<world, ray, depth, depth0, frames, last, varsHit, varsRender>>

\* lines 181-182, 184-185: the material absorbs the ray
Absorb(rnd) ==
    /\ pc = "call"
    /\ ~DepthExhausted(depth)
    /\ \E found \in {WorldHit(world, ray)} :
          /\ found.some
          /\ \E sc \in {Scatter(found.material, ray, found, rnd)} :
                /\ ~sc.some
                /\ last' = [called |-> TRUE, m |-> found.material, r_in |-> ray,
                            i |-> found, rnd |-> rnd, out |-> sc]
    /\ queries' = queries + 1
    /\ pc' = "ret"
    /\ ret' = Black
    /\ ending' = "absorbed"
    /\ UNCHANGED <<world, ray, depth, depth0, frames, varsHit, varsRender>>

\* lines 181-183: the material scatters the ray and ray_color is called on the
\* scattered ray
Bounce(rnd) ==
    /\ pc = "call"
    /\ ~DepthExhausted(depth)
    /\ \E found \in {WorldHit(world, ray)} :
          /\ found.some
          /\ \E sc \in {Scatter(found.material, ray, found, rnd)} :
                /\ sc.some
                /\ Followable(world, sc.scattered, NextDepth(depth))
                /\ last' = [called |-> TRUE, m |-> found.material, r_in |-> ray,
                            i |-> found, rnd |-> rnd, out |-> sc]
                /\ frames' = Append(frames, sc.attenuation)
                /\ ray' = sc.scattered
    /\ queries' = queries + 1
    /\ depth' = NextDepth(depth)
    /\ UNCHANGED <<world, pc, depth0, ret, ending, varsHit, varsRender>>

\* line 183: the recursive call returned; its value is multiplied by the
\* attenuation and returned in turn
Unwind ==
    /\ pc = "ret"
    /\ frames # <<>>
    /\ ret' = VMul(frames[Len(frames)], ret)
    /\ frames' = SubSeq(frames, 1, Len(frames) - 1)
    /\ UNCHANGED <<world, pc, ray, depth, depth0, queries, ending, last, varsHit, varsRender>>

\* the outermost invocation returned
Finish ==
    /\ pc = "ret"
    /\ frames = <<>>
    /\ pc' = "done"
    /\ UNCHANGED <<world, ray, depth, depth0, frames, ret, queries, ending, last, varsHit, varsRender>>

NextTrace ==
    \/ Exhausted
    \/ Miss
    \/ \E rnd \in RndSet : Absorb(rnd)
    \/ \E rnd \in RndSet : Bounce(rnd)
    \/ Unwind
    \/ Finish

SpecTrace == InitTrace /\ [][NextTrace]_vars

-----------------------------------------------------------------------------
(* Camera, write_color and the render driver of main as a state machine: the *)
(* rayon workers run the closure of line 597 on whole rows, in any order     *)

VCross(a, b) ==
    << RSub(RMul(a[2], b[3]), RMul(a[3], b[2])),
       RSub(RMul(a[3], b[1]), RMul(a[1], b[3])),
       RSub(RMul(a[1], b[2]), RMul(a[2], b[1])) >>

\* lines 405-417
CameraOf(origin, horizontal, vertical, u, v, w, aperture, focus_dist) ==
    [origin |-> origin,
     lower_left |-> VSub(VSub(VSub(origin, VDiv(horizontal, R(2))),
                              VDiv(vertical, R(2))),
                         VScale(w, focus_dist)),
     horizontal |-> horizontal,
     vertical |-> vertical,
     u |-> u, v |-> v, w |-> w,
     lens_radius |-> RDiv(aperture, R(2))]

\* lines 398-404, from the frame (u, v, w) on
CameraFrame(origin, u, v, w, viewport_width, viewport_height, aperture, focus_dist) ==
    CameraOf(origin,
             VScale(VScale(u, viewport_width), focus_dist),
             VScale(VScale(v, viewport_height), focus_dist),
             u, v, w, aperture, focus_dist)

\* lines 397-398
CameraU(origin, u, w, viewport_width, viewport_height, aperture, focus_dist) ==
    CameraFrame(origin, u, VCross(w, u), w, viewport_width, viewport_height,
                aperture, focus_dist)

\* lines 396-397
CameraW(origin, vup, w, viewport_width, viewport_height, aperture, focus_dist) ==
    CameraU(origin, Normalize(VCross(vup, w)), w, viewport_width, viewport_height,
            aperture, focus_dist)

\* Camera::new; h is tan(theta / 2) of line 392, which vfov enters through
CameraNew(lookfrom, lookat, vup, h, aspect_ratio, aperture, focus_dist) ==
    CameraW(lookfrom, vup, Normalize(VSub(lookfrom, lookat)),
            RMul(aspect_ratio, RMul(R(2), h)), RMul(R(2), h), aperture, focus_dist)

\* lines 374-380
GetRayOffset(cam, s, t, offset) ==
    Ray(VAdd(cam.origin, offset),
        VSub(VSub(VAdd(VAdd(cam.lower_left, VScale(cam.horizontal, s)),
                       VScale(cam.vertical, t)),
                  cam.origin),
             offset))

\* line 373-374: rd is random_in_unit_disk() * lens_radius
GetRayLens(cam, s, t, rd) ==
    GetRayOffset(cam, s, t, VAdd(VScale(cam.u, rd[1]), VScale(cam.v, rd[2])))

\* Camera::get_ray; p is what random_in_unit_disk returns
GetRay(cam, s, t, p) == GetRayLens(cam, s, t, VScale(p, cam.lens_radius))

RECURSIVE RayColor(_, _, _, _)
RECURSIVE RayColorHit(_, _, _, _, _)
RECURSIVE RayColorScatter(_, _, _, _)

\* Ray::ray_color as a function; rnds holds the draws of the scatter calls,
\* one for each level of the recursion
RayColor(w, r, d, rnds) ==
    IF DepthExhausted(d) THEN Black
    ELSE RayColorHit(w, r, d, rnds, WorldHit(w, r))

\* lines 181-190
RayColorHit(w, r, d, rnds, found) ==
    IF found.some
    THEN RayColorScatter(w, d, rnds, Scatter(found.material, r, found, Head(rnds)))
    ELSE Background(r)

\* lines 182-186
RayColorScatter(w, d, rnds, sc) ==
    IF sc.some
    THEN VMul(sc.attenuation, RayColor(w, sc.scattered, NextDepth(d), Tail(rnds)))
    ELSE Black

\* f64::clamp
Clamp(x, lo, hi) == IF RLt(x, lo) THEN lo ELSE IF RLt(hi, x) THEN hi ELSE x

\* `as u8` of a value in [0, 256)
AsU8(x) == x[1] \div x[2]

\* lines 95-97 and 101-103: one channel of the written pixel
Channel(c, scale) ==
    AsU8(RMul(R(256), Clamp(RSqrt(RMul(c, scale)), R0, Rat(999, 1000))))

\* Vector3::write_color: the line written, as <<R, G, B>>
WriteColor(color, samples_per_pixel) ==
    << Channel(color[1], Rat(1, samples_per_pixel)),
       Channel(color[2], Rat(1, samples_per_pixel)),
       Channel(color[3], Rat(1, samples_per_pixel)) >>

\* the camera of the rendered scene
Cam == CameraNew(V(0, 0, 0), V(0, 0, -1), V(0, 1, 0), Rat(1, 2), R(2), R(2), R(2))

\* the rendered scene
RenderWorld == << Sphere(V(-4, -2, -4), Rat(3, 4), Lambertian(Grey)) >>

\* the draws of the scatter calls of one sample
RenderRnds == [k \in 1..RenderDepth |-> [ball |-> VQ(0, 0, 1, 2), u |-> R0]]

\* random_in_range(-1.0, 1.0) twice: points of the square [-1, 1)^2
SquareDraws == { VQ(0, 0, 0, 2), VQ(1, 0, 0, 2), VQ(9, 9, 0, 10) }

\* Vector3::random_in_unit_disk: the loop of lines 34-39 returns the first
\* draw of squared length below 1
RandomInUnitDisk == { p \in SquareDraws : RLt(LengthSquared(p), R1) }

\* the lens draws of the samples of a pixel, one for each sample
LensSeqs ==
    { [s \in 1..SamplesPerPixel |-> IF s % 2 = 1 THEN p ELSE q] :
        p \in RandomInUnitDisk, q \in RandomInUnitDisk }

\* line 603
SampleU(i) == RDiv(R(i), R(Width - 1))

\* line 604
SampleV(j) == RDiv(R(j), R(Height - 1))

\* lines 603-605: the rays of row j, for each column and sample
RowRays(j, lens) ==
    [c \in 1..Width |->
        [s \in 1..SamplesPerPixel |-> GetRay(Cam, SampleU(c - 1), SampleV(j), lens[s])]]

\* line 606: the colours of the samples of a row, from its rays
RowColors(rays) ==
    [c \in 1..Width |->
        [s \in 1..SamplesPerPixel |->
            RayColor(RenderWorld, rays[c][s], RenderDepth, RenderRnds)]]

\* line 608: the fold over the samples s.. of a pixel
RECURSIVE SampleFold(_, _, _)
SampleFold(colors, s, acc) ==
    IF s > Len(colors) THEN acc ELSE SampleFold(colors, s + 1, VAdd(acc, colors[s]))

\* lines 599-610: the Vec<Vector3> of a row, from the colours of its samples
RowPixels(colors) == [c \in 1..Width |-> SampleFold(colors[c], 1, Zero)]

\* the get_ray calls of row j: for each column and sample, the image
\* coordinates passed and the origin of the ray returned
RowSamples(j, rays) ==
    [c \in 1..Width |->
        [s \in 1..SamplesPerPixel |->
            [u |-> SampleU(c - 1), v |-> SampleV(j), origin |-> rays[c][s].origin]]]

\* line 596 left out: the rows in ascending order
RowAtForward(pos) == pos

\* lines 594-596: the row at position pos of (0..height).rev()
RowAt(pos) == Height - 1 - pos

\* lines 597-611: flat_map and collect keep the order of the iterator
RECURSIVE Collected(_)
Collected(pos) ==
    IF pos >= Height THEN <<>> ELSE rowPixels[RowAt(pos)] \o Collected(pos + 1)

InitRender ==
    /\ HitIdle
    /\ TraceIdle
    /\ rpc = "header"
    /\ header = <<>>
    /\ rowState = [j \in 0..(Height - 1) |-> "todo"]
    /\ rowPixels = [j \in 0..(Height - 1) |-> <<>>]
    /\ rowSamples = [j \in 0..(Height - 1) |-> <<>>]
    /\ finished = <<>>
    /\ image = <<>>
    /\ stdout = <<>>

\* lines 586-592
PrintHeader ==
    /\ rpc = "header"
    /\ header' = <<"P3", Width, Height, 255>>
    /\ rpc' = "render"
    /\ UNCHANGED <<rowState, rowPixels, rowSamples, finished, image, stdout,
                   varsHit, varsTrace>>

Running == { j \in 0..(Height - 1) : rowState[j] = "run" }

\* a free worker takes row j
StartRow(j) ==
    /\ rpc = "render"
    /\ rowState[j] = "todo"
    /\ Cardinality(Running) < Workers
    /\ rowState' = [rowState EXCEPT ![j] = "run"]
    /\ UNCHANGED <<rpc, header, rowPixels, rowSamples, finished, image, stdout,
                   varsHit, varsTrace>>

\* lines 597-610: the closure returns the pixels of row j
FinishRow(j, lens) ==
    /\ rpc = "render"
    /\ rowState[j] = "run"
    /\ rowState' = [rowState EXCEPT ![j] = "done"]
    /\ \E rays \in {RowRays(j, lens)} :
          /\ rowSamples' = [rowSamples EXCEPT ![j] = RowSamples(j, rays)]
          /\ \E colors \in {RowColors(rays)} :
                rowPixels' = [rowPixels EXCEPT ![j] = RowPixels(colors)]
    /\ finished' = Append(finished, j)
    /\ UNCHANGED <<rpc, header, image, stdout, varsHit, varsTrace>>

\* line 612: collect returns once every row is computed
Collect ==
    /\ rpc = "render"
    /\ \A j \in 0..(Height - 1) : rowState[j] = "done"
    /\ image' = Collected(0)
    /\ rpc' = "output"
    /\ UNCHANGED <<header, rowState, rowPixels, rowSamples, finished, stdout,
                   varsHit, varsTrace>>

\* lines 615-617: one pass of the output loop
WritePixel ==
    /\ rpc = "output"
    /\ Len(stdout) < Len(image)
    /\ stdout' = Append(stdout, WriteColor(image[Len(stdout) + 1], SamplesPerPixel))
    /\ UNCHANGED <<rpc, header, rowState, rowPixels, rowSamples, finished, image,
                   varsHit, varsTrace>>

\* the output loop ends
EndOutput ==
    /\ rpc = "output"
    /\ Len(stdout) = Len(image)
    /\ rpc' = "done"
    /\ UNCHANGED <<header, rowState, rowPixels, rowSamples, finished, image, stdout,
                   varsHit, varsTrace>>

NextRender ==
    \/ PrintHeader
    \/ \E j \in 0..(Height - 1) : StartRow(j)
    \/ \E j \in 0..(Height - 1), lens \in LensSeqs : FinishRow(j, lens)
    \/ Collect
    \/ WritePixel
    \/ EndOutput

SpecRender == InitRender /\ [][NextRender]_vars

-----------------------------------------------------------------------------
(* Claims about Sphere::hit and HittableStore::hit, checked under SpecHit *)

StoreCalled == call.kind = "store"
SphereCalled == call.kind = "sphere"

\* what each primitive reports for the interval of the store call, hits only
Reports ==
    { h \in { SphereHit(objects[k], call.r, call.t_min, call.t_max) :
                k \in 1..Len(objects) } : h.some }

\* C1: HittableStore::hit returns none exactly when no primitive reports a hit
\* in the interval, and otherwise an intersection whose t is the minimum of the
\* t values the primitives report for that interval.
C1_ClosestHit ==
    StoreCalled =>
        /\ storeRes.some <=> Reports # {}
        /\ storeRes.some =>
              /\ \E h \in Reports : h.t = storeRes.t
              /\ \A h \in Reports : RLe(storeRes.t, h.t)

\* two primitives report different t and the store returned the smaller one
C1_Witness ==
    /\ StoreCalled
    /\ storeRes.some
    /\ \E h \in Reports : RLt(storeRes.t, h.t)
    /\ SphereHit(objects[Len(objects)], call.r, call.t_min, call.t_max).t # storeRes.t

InClosed(root, t_min, t_max) == RLe(t_min, root) /\ RLe(root, t_max)
InHalfOpen(root, t_min, t_max) == RLt(t_min, root) /\ RLe(root, t_max)

CalledSphere == objects[call.idx]
Root1 == Root(CalledSphere, call.r, -1)
Root2 == Root(CalledSphere, call.r, 1)

\* C2 as claimed: with a non-negative discriminant the smaller root is taken if
\* it lies in (t_min, t_max], else the larger root if it lies in (t_min, t_max],
\* else there is no hit.
C2_RootsHalfOpen ==
    (SphereCalled /\ ~RLt(Discriminant(CalledSphere, call.r), R0)) =>
        IF InHalfOpen(Root1, call.t_min, call.t_max)
        THEN sphereRes.some /\ sphereRes.t = Root1
        ELSE IF InHalfOpen(Root2, call.t_min, call.t_max)
             THEN sphereRes.some /\ sphereRes.t = Root2
             ELSE ~sphereRes.some

\* C2 as amended: the same with the closed interval [t_min, t_max]; and a
\* negative discriminant is no hit.
C2_RootsClosed ==
    SphereCalled =>
        IF RLt(Discriminant(CalledSphere, call.r), R0) THEN ~sphereRes.some
        ELSE IF InClosed(Root1, call.t_min, call.t_max)
             THEN sphereRes.some /\ sphereRes.t = Root1
             ELSE IF InClosed(Root2, call.t_min, call.t_max)
                  THEN sphereRes.some /\ sphereRes.t = Root2
                  ELSE ~sphereRes.some

\* the smaller root equals t_min and is the one returned
C2_Witness ==
    /\ SphereCalled
    /\ ~RLt(Discriminant(CalledSphere, call.r), R0)
    /\ Root1 = call.t_min
    /\ sphereRes.some
    /\ sphereRes.t = Root1

\* the geometric outward normal (P - C) / r of the returned intersection
OutwardNormal == VDiv(VSub(sphereRes.p, CalledSphere.center), CalledSphere.radius)

\* C3: an intersection returned by Sphere::hit stores a normal with
\* dot(ray.direction, normal) <= 0, and front_facing is true exactly when
\* dot(ray.direction, outward normal) < 0, for either sign of the radius.
C3_NormalFacesRay ==
    (SphereCalled /\ sphereRes.some) =>
        /\ RLe(Dot(call.r.direction, sphereRes.normal), R0)
        /\ sphereRes.front_facing <=> RLt(Dot(call.r.direction, OutwardNormal), R0)
        /\ sphereRes.normal =
              IF sphereRes.front_facing THEN OutwardNormal
              ELSE VScale(OutwardNormal, R(-1))

\* a sphere of negative radius hit from outside: the stored normal is the
\* outward normal turned round
C3_Witness ==
    /\ SphereCalled
    /\ sphereRes.some
    /\ RLt(CalledSphere.radius, R0)
    /\ ~sphereRes.front_facing
    /\ RLt(Dot(call.r.direction, sphereRes.normal), R0)

\* the orders of a Vec
Orders(seq) ==
    LET n == Len(seq)
        bij == { f \in [1..n -> 1..n] : \A i, j \in 1..n : f[i] = f[j] => i = j }
    IN  { [i \in 1..n |-> seq[f[i]]] : f \in bij }

\* the primitives whose report attains the returned t
Nearest ==
    { k \in 1..Len(objects) :
        LET h == SphereHit(objects[k], call.r, call.t_min, call.t_max)
        IN  h.some /\ h.t = storeRes.t }

\* C7 as claimed: every order of the same primitives gives the same
\* intersection, ties at the same t included.
C7_OrderIndependent ==
    StoreCalled =>
        \A objs \in Orders(objects) :
            HittableStoreHit(objs, call.r, call.t_min, call.t_max) = storeRes

\* C7 as amended: every order gives the same none/some, the same t and the same
\* point; it gives the same normal, front_facing and material too when one
\* primitive alone attains the nearest t.
C7_OrderIndependentUpToTies ==
    StoreCalled =>
        \A objs \in Orders(objects) :
            LET other == HittableStoreHit(objs, call.r, call.t_min, call.t_max)
            IN  /\ other.some = storeRes.some
                /\ other.t = storeRes.t
                /\ other.p = storeRes.p
                /\ Cardinality(Nearest) <= 1 => other = storeRes

\* three primitives, two of them hit at different t, the nearest one alone
C7_Witness ==
    /\ StoreCalled
    /\ Len(objects) >= 2
    /\ storeRes.some
    /\ Cardinality(Nearest) = 1
    /\ Cardinality(Reports) >= 2
    /\ Nearest # {Len(objects)}

-----------------------------------------------------------------------------
(* Ray::ray_color and Material::scatter: the properties checked in SpecTrace  *)

\* the outermost invocation had depth 0 and has returned
ReturnedAtDepthZero == depth0 = 0 /\ pc \in {"ret", "done"}

\* C6: ray_color called with depth 0 returns black, for every scene and every
\* ray, and makes no world.hit call.
C6_DepthZeroBlack ==
    /\ depth0 = 0 => queries = 0
    /\ ReturnedAtDepthZero => ret = Black /\ ending = "depth"

\* depth 0 on a ray that the scene would have stopped
C6_Witness == ReturnedAtDepthZero /\ pc = "done" /\ WorldHit(world, ray).some

\* the innermost invocation has returned and no caller has resumed yet
InnermostReturned(n) == pc = "ret" /\ Len(frames) = n

C9_Walk ==
    /\ queries <= depth0
    /\ pc = "call" => depth = depth0 - queries /\ Len(frames) = queries
    /\ pc \in {"ret", "done"} => ending \in {"depth", "absorbed", "miss"}
    /\ (ending = "depth" /\ InnermostReturned(queries)) => depth = 0 /\ ret = Black
    /\ (ending = "absorbed" /\ InnermostReturned(queries - 1)) =>
          ret = Black /\ last.called /\ ~last.out.some
    /\ (ending = "miss" /\ InnermostReturned(queries - 1)) =>
          ret = Background(ray) /\ ~WorldHit(world, ray).some

\* what is left of an invocation tree: the calls still to be made and the
\* returns still to be taken
Remaining ==
    CASE pc = "call" -> 2 * depth + Len(frames) + 2
      [] pc = "ret" -> Len(frames) + 1
      [] OTHER -> 0

\* C9: ray_color(ray, scene, d) returns after at most d world.hit calls: every
\* recursive call has the depth one lower and every step of the walk brings
\* the return nearer; the walk ends when the depth is 0 (black), when the
\* material absorbs the ray (black) or when the ray misses every primitive
\* (the background gradient).
C9_BoundedWalk == [](C9_Walk /\ Remaining >= 0) /\ [][Remaining' < Remaining]_vars

\* a walk that used every query its depth allows and ended by exhausting it
C9_Witness == pc = "done" /\ depth0 = MaxDepth /\ queries = depth0 /\ ending = "depth"

\* line 475-477: the direction Metal gives the scattered ray of the last call
PerturbedReflection ==
    VAdd(Reflect(Normalize(last.r_in.direction), last.i.normal),
         VScale(last.rnd.ball, last.m.fuzz))

MetalCalled == last.called /\ last.m.kind = "Metal"

\* C10: Material::scatter for Metal returns a scattered ray, with the albedo as
\* attenuation and the hit point as origin, exactly when the fuzz-perturbed
\* reflected direction has a dot product > 0 with the stored normal; otherwise
\* it returns nothing and the ray is absorbed.
C10_MetalScatter ==
    MetalCalled =>
        /\ last.out.some <=> RLt(R0, Dot(PerturbedReflection, last.i.normal))
        /\ last.out.some =>
              /\ last.out.attenuation = last.m.albedo
              /\ last.out.scattered = Ray(last.i.p, PerturbedReflection)
        /\ ~last.out.some => ending = "absorbed"

\* a reflection that grazes the surface: the dot product is exactly 0
C10_Witness ==
    /\ MetalCalled
    /\ Dot(PerturbedReflection, last.i.normal) = R0
    /\ ~last.out.some

\* the last scatter call was on the front face of a Dielectric of index 1.0
GlassOneFront ==
    /\ last.called
    /\ last.m.kind = "Dielectric"
    /\ last.m.ir = R1
    /\ last.i.front_facing

UnitIn == Normalize(last.r_in.direction)
CosTheta == RMin(Dot(VScale(UnitIn, R(-1)), last.i.normal), R1)
SinTheta == RSqrt(RSub(R1, RMul(CosTheta, CosTheta)))
RefractionRatio == RDiv(R1, last.m.ir)
CannotRefract == RLt(R1, RMul(RefractionRatio, SinTheta))
RouletteReflects == RLt(last.rnd.u, Reflectance(CosTheta, RefractionRatio))

\* C8 as stated: with index 1.0 on the front face the refraction ratio is 1.0
\* and, when total internal reflection does not trigger, the scattered
\* direction is the normalized incoming direction.
C8_NoBending ==
    (GlassOneFront /\ ~CannotRefract) =>
        /\ RefractionRatio = R1
        /\ last.out.some
        /\ last.out.scattered.direction = UnitIn

\* C8 amended: the same, when neither total internal reflection triggers nor
\* the reflectance exceeds the random() draw of the call.
C8_NoBendingUnlessReflected ==
    (GlassOneFront /\ ~CannotRefract /\ ~RouletteReflects) =>
        /\ RefractionRatio = R1
        /\ last.out.some
        /\ last.out.scattered.direction = UnitIn

\* an oblique ray refracted straight through
C8_Witness ==
    /\ GlassOneFront
    /\ ~CannotRefract
    /\ ~RouletteReflects
    /\ RLt(CosTheta, R1)
    /\ last.out.scattered.direction = UnitIn

-----------------------------------------------------------------------------
(* The render driver: the properties checked in SpecRender *)

\* the pixel that row j, column i computed, as write_color writes it
Computed(j, i) == WriteColor(rowPixels[j][i + 1], SamplesPerPixel)

\* C4: the render driver emits width * height pixel lines, rows from
\* height - 1 down to 0 and columns from 0 up within a row, whatever the order
\* the workers compute the rows in: the line at output position k is the pixel
\* computed for row height - 1 - (k div width), column k mod width.
C4_RowMajorOutput ==
    /\ Len(stdout) <= Width * Height
    /\ rpc = "done" => Len(stdout) = Width * Height
    /\ \A k \in 0..(Len(stdout) - 1) :
          stdout[k + 1] = Computed(Height - 1 - (k \div Width), k % Width)

\* the row written last was computed first, and the rows written first and
\* last differ
C4_Witness ==
    /\ rpc = "done"
    /\ finished[1] = 0
    /\ stdout[1] # stdout[Width * (Height - 1) + 1]

\* the samples of pixel (i, j), once its row is computed
SamplesOf(j, i) == rowSamples[j][i + 1]

\* C5: for every pixel the driver draws samples_per_pixel samples, each with
\* its own jittered (u, v) image coordinate and a lens jitter.
C5_JitteredSamples ==
    \A j \in 0..(Height - 1) :
        rowState[j] = "done" =>
            \A i \in 0..(Width - 1) :
                /\ Len(SamplesOf(j, i)) = SamplesPerPixel
                /\ \A s1, s2 \in 1..SamplesPerPixel :
                      s1 # s2 =>
                          <<SamplesOf(j, i)[s1].u, SamplesOf(j, i)[s1].v>> #
                              <<SamplesOf(j, i)[s2].u, SamplesOf(j, i)[s2].v>>

=============================================================================
